---- MODULE Spec2Model ----
(***************************************************************************)
(* Model of the expectation-to-mock-call binding engine of mattavos/tpp.   *)
(*                                                                         *)
(* The sources hold several revisions of the package.  The model follows   *)
(* the revision that tpp_test.go exercises (ExpectoriseOption, exactReturn,*)
(* mustArgMatch): src/unnamed/part_000 lines 335-792 (tpp.go) together     *)
(* with src/unnamed/part_005 (reflect.go).                                 *)
(*                                                                         *)
(* A Go value boxed in `any` is a record [t, v]: t is its dynamic type     *)
(* (what reflect.TypeOf prints) and v a payload.  The untyped nil          *)
(* interface is NilV.  A declared parameter type is a string such as       *)
(* "int", "error", "*Struct", "any" or "[]any".                            *)
(***************************************************************************)
EXTENDS Integers, Sequences, FiniteSets, TLC

\* ------------------------------------------------------------------------
\* Bounds of the model
\* ------------------------------------------------------------------------
MaxArgs == 2
MaxRet == 2
MaxSig == 2
MaxCalls == 2
MaxTimes == 2
MaxList == 3
MaxInvoke == 2

\* ------------------------------------------------------------------------
\* Values
\* ------------------------------------------------------------------------
NilV == [t |-> "nil", v |-> 0]
IntV(n) == [t |-> "int", v |-> n]
ErrV(n) == [t |-> "*errors.fundamental", v |-> n]
PtrV(n) == [t |-> "*Struct", v |-> n]
SliceV(elem) == [t |-> elem, v |-> 0]
WrongV == [t |-> "wrong", v |-> 0]
MatcherV == [t |-> "mock.argumentMatcher", v |-> 0]

\* tpp.Arg(): the placeholder, a value of the empty struct type templateArg
Arg == [t |-> "tpp.templateArg", v |-> 0]

\* testifymock.Anything: the wildcard, a string constant
Anything == [t |-> "string", v |-> 0]

\* var errDefault = errors.New("ERROR")
errDefault == ErrV(1)

\* ------------------------------------------------------------------------
\* reflect.Type of the parameters of a Return method
\* ------------------------------------------------------------------------
ElemTypes == {"int", "error", "*Struct", "any"}

\* reflect.Type.Name(): the empty string for unnamed (composite) types and
\* for the empty interface
TypeName(typ) ==
  CASE typ = "int" -> "int"
    [] typ = "error" -> "error"
    [] OTHER -> ""

\* reflect.Type.Kind()
TypeKind(typ) ==
  CASE typ = "int" -> "Int"
    [] typ = "error" -> "Interface"
    [] typ = "any" -> "Interface"
    [] typ = "*Struct" -> "Ptr"
    [] typ = "map[int]int" -> "Map"
    [] typ = "func()" -> "Func"
    [] typ = "chan int" -> "Chan"
    [] OTHER -> "Slice"

\* the slice type []T taken by a variadic parameter ...T
SliceOf(typ) == "[]" \o typ

\* reflect.Zero(typ), boxed in `any`: a nil interface loses its type, the
\* zero value of every other type keeps it
Zero(typ) ==
  CASE typ = "int" -> IntV(0)
    [] typ = "*Struct" -> PtrV(0)
    [] TypeKind(typ) = "Interface" -> NilV
    [] OTHER -> SliceV(typ)

\* reflect.Type.AssignableTo for the dynamic type of a non-nil value
AssignableTo(dyn, target) ==
  CASE target = "any" -> TRUE
    [] target = "error" -> dyn = "*errors.fundamental"
    [] OTHER -> dyn = target

\* The type of a Return method: in[i] is the i-th parameter; when variadic
\* the last entry is the element type T of the trailing ...T.
NumIn(fnType) == Len(fnType.in)

IsVariadic(fnType) == fnType.variadic

In(fnType, i) ==
  IF fnType.variadic /\ i = Len(fnType.in)
    THEN SliceOf(fnType.in[i])
    ELSE fnType.in[i]

\* func (_m *Call) Return(returnArguments ...interface{}) of a bare call
BareReturn == [in |-> <<"any">>, variadic |-> TRUE]

\* ------------------------------------------------------------------------
\* Slices that may be nil ([]any): Go tells a nil slice from an empty one
\* ------------------------------------------------------------------------
NilSlice == [isNil |-> TRUE, vals |-> <<>>]

MkSlice(s) == [isNil |-> FALSE, vals |-> s]

Min(a, b) == IF a < b THEN a ELSE b

\* ------------------------------------------------------------------------
\* The reflection layer (reflect.go)
\* ------------------------------------------------------------------------

\* What a panic says: a text and, for a Return mismatch, the parameter list
\* expected and the types received
NoMsg == [text |-> "", expected |-> <<>>, received |-> <<>>]

TextMsg(text) == [NoMsg EXCEPT !.text = text]

\* (mutant) the Return method is not looked for
newReflectedMockCall_noReturnCheck(handle) ==
  CASE handle = "notStruct" -> "mock must be struct"
    [] handle = "noArguments" -> "args must be valid"
    [] handle = "argsNotSlice" -> "args must be slice"
    [] handle = "argsNotSettable" -> "args must be mutable"
    [] OTHER -> ""

\* newReflectedMockCall: "" when the handle can be adapted, else the error.
\* A handle is named after the first requirement it fails: not a struct or
\* a pointer to one, no Arguments field, Arguments not a slice, Arguments
\* not settable, no Return method; "call" and "wrapper" meet them all.
newReflectedMockCall(handle) ==
  CASE handle = "notStruct" -> "mock must be struct"
    [] handle = "noArguments" -> "args must be valid"
    [] handle = "argsNotSlice" -> "args must be slice"
    [] handle = "argsNotSettable" -> "args must be mutable"
    [] handle = "noReturn" -> "given mock has no Return method"
    [] OTHER -> ""

\* GetArguments: a copy of mock.Arguments
GetArguments(call) == call.Arguments

\* SetArguments: builds a new slice with reflect.Value.Set and stores it.
\* reflect.ValueOf(nil) is the zero Value and Set panics on it, before the
\* new slice is stored.
SetArguments(call, args) ==
  IF \E i \in 1..Len(args) : args[i] = NilV
    THEN [abort |-> "SetArguments", call |-> call,
          msg |-> TextMsg("reflect: call of reflect.Value.Set on zero Value")]
    ELSE [abort |-> "", call |-> [call EXCEPT !.Arguments = args], msg |-> NoMsg]

\* (mutant) a nil is taken for interface parameters only, the rule of
\* reflect.Value.Call for a nil interface value
argAssignable_nilInterfaceOnly(arg, target) ==
  IF arg = NilV
    THEN TypeKind(target) = "Interface"
    ELSE AssignableTo(arg.t, target)

\* argAssignable
argAssignable(arg, target) ==
  IF arg = NilV
    THEN TypeKind(target) \in {"Interface", "Ptr", "Slice", "Map", "Func", "Chan"}
    ELSE AssignableTo(arg.t, target)

\* (mutant) only the number of values is compared
argsMatch_arityOnly(fnType, args) ==
  IF IsVariadic(fnType)
    THEN Len(args) >= NumIn(fnType) - 1
    ELSE Len(args) = NumIn(fnType)

\* argsMatch
argsMatch(fnType, args) ==
  LET numIn == NumIn(fnType) IN
  IF IsVariadic(fnType)
    THEN /\ Len(args) >= numIn - 1
         /\ \A i \in 1..(numIn - 1) : argAssignable(args[i], In(fnType, i))
         /\ \A i \in numIn..Len(args) : argAssignable(args[i], fnType.in[numIn])
    ELSE /\ Len(args) = numIn
         /\ \A i \in 1..numIn : argAssignable(args[i], In(fnType, i))

\* mustArgMatch: panics with the message of printArgMismatch unless the
\* matcher accepts ("" when it returns)
mustArgMatch(fnType, args) == IF argsMatch(fnType, args) THEN "" ELSE "mismatch"

\* isVariadicAnyReturn: the type is func(...any)
isVariadicAnyReturn(fnType) ==
  /\ IsVariadic(fnType)
  /\ NumIn(fnType) = 1
  /\ fnType.in[1] = "any"

\* toReflectValues: []any to []reflect.Value; a nil becomes the zero value
\* of the parameter type it is aligned with (the slice type itself for the
\* positions of a variadic tail)
toReflectValues(args, typ) ==
  LET argType(i) == In(typ, Min(i, NumIn(typ)))
      nilOK(i) ==
        \/ isVariadicAnyReturn(typ)
        \/ TypeKind(argType(i)) \in
             {"Ptr", "Interface", "Slice", "Map", "Chan", "Func", "UnsafePointer"}
      conv(i) ==
        IF args[i] # NilV THEN args[i]
        ELSE IF isVariadicAnyReturn(typ) THEN Zero("any")
        ELSE Zero(argType(i))
  IN
  IF Len(args) # NumIn(typ) /\ ~IsVariadic(typ)
    THEN [err |-> TRUE, values |-> <<>>]
  ELSE IF \E i \in 1..Len(args) : args[i] = NilV /\ ~nilOK(i)
    THEN [err |-> TRUE, values |-> <<>>]
  ELSE [err |-> FALSE, values |-> [i \in 1..Len(args) |-> conv(i)]]

\* reflect.Value.Call on the Return method: panics unless the count fits
\* and every value is assignable to its parameter (a nil interface value
\* only to an interface parameter); otherwise the handle's Return stores
\* the values it is given in ReturnArguments.
CallAccepts(fnType, rargs) ==
  LET numIn == NumIn(fnType)
      fits(x, target) ==
        IF x = NilV THEN TypeKind(target) = "Interface"
        ELSE AssignableTo(x.t, target)
  IN
  IF IsVariadic(fnType)
    THEN /\ Len(rargs) >= numIn - 1
         /\ \A i \in 1..(numIn - 1) : fits(rargs[i], In(fnType, i))
         /\ \A i \in numIn..Len(rargs) : fits(rargs[i], fnType.in[numIn])
    ELSE /\ Len(rargs) = numIn
         /\ \A i \in 1..numIn : fits(rargs[i], In(fnType, i))

returnMethodCall(call, rargs) ==
  IF CallAccepts(call.returnType, rargs)
    THEN [abort |-> "", call |-> [call EXCEPT !.ReturnArguments = rargs,
                                               !.returned = TRUE],
          msg |-> NoMsg]
    ELSE [abort |-> "reflect.Call", call |-> call,
          msg |-> TextMsg("reflect: Call using wrong argument")]

\* (mutant) the error is also put where the parameter type has no name
RECURSIVE emptyArgsFrom_unnamedIsError(_, _, _)
emptyArgsFrom_unnamedIsError(fnType, retErr, i) ==
  IF i > NumIn(fnType) THEN <<>>
  ELSE LET argType == In(fnType, i)
           here ==
             IF retErr # NilV /\ TypeName(argType) \in {"error", ""}
               THEN <<retErr>>
             ELSE IF TypeName(argType) # ""
               THEN <<Zero(argType)>>
             ELSE <<>>
       IN here \o emptyArgsFrom_unnamedIsError(fnType, retErr, i + 1)

\* (mutant) a zero value is synthesized for a variadic tail as well
RECURSIVE emptyArgsFrom_keepVariadic(_, _, _)
emptyArgsFrom_keepVariadic(fnType, retErr, i) ==
  IF i > NumIn(fnType) THEN <<>>
  ELSE LET argType == In(fnType, i)
           here ==
             IF retErr # NilV /\ TypeName(argType) = "error"
               THEN <<retErr>>
               ELSE <<Zero(argType)>>
       IN here \o emptyArgsFrom_keepVariadic(fnType, retErr, i + 1)

\* the values CallReturnEmpty hands to Return
RECURSIVE emptyArgsFrom(_, _, _)
emptyArgsFrom(fnType, retErr, i) ==
  IF i > NumIn(fnType) THEN <<>>
  ELSE LET argType == In(fnType, i)
           here ==
             IF retErr # NilV /\ TypeName(argType) = "error"
               THEN <<retErr>>
             ELSE IF ~IsVariadic(fnType) \/ i < NumIn(fnType)
               THEN <<Zero(argType)>>
             ELSE <<>>
       IN here \o emptyArgsFrom(fnType, retErr, i + 1)

\* (mutant) the lone error is handed to the Return of a bare call only
emptyArgs_bareOnly(fnType, retErr) ==
  IF isVariadicAnyReturn(fnType) /\ retErr # NilV
    THEN <<retErr>>
    ELSE emptyArgsFrom(fnType, retErr, 1)

emptyArgs(fnType, retErr) ==
  IF NumIn(fnType) = 1 /\ TypeName(In(fnType, 1)) = "" /\ retErr # NilV
    THEN <<retErr>>
    ELSE emptyArgsFrom(fnType, retErr, 1)

\* CallReturnEmpty
CallReturnEmpty(call, retErr) ==
  returnMethodCall(call, emptyArgs(call.returnType, retErr))

\* (mutant) the error takes the place of the last value given
returnArgs_errReplacesLast(fnType, args, retErr, zeroValueErrs) ==
  IF retErr # NilV /\ args # <<>>
    THEN [args EXCEPT ![Len(args)] = retErr]
  ELSE IF retErr # NilV
    THEN Append(args, retErr)
  ELSE IF zeroValueErrs
            /\ \E i \in (Len(args) + 1)..NumIn(fnType) :
                 TypeName(In(fnType, i)) = "error"
    THEN Append(args, NilV)
  ELSE args

\* (mutant) the error is appended without looking whether one was given
returnArgs_alwaysAppend(fnType, args, retErr, zeroValueErrs) ==
  Append(args, retErr)

\* (mutant) a missing nil error is never synthesized
returnArgs_neverZero(fnType, args, retErr, zeroValueErrs) ==
  IF retErr # NilV THEN Append(args, retErr) ELSE args

\* the values CallReturn hands to the matcher and then to Return
returnArgs(fnType, args, retErr, zeroValueErrs) ==
  IF retErr # NilV
    THEN Append(args, retErr)
  ELSE IF zeroValueErrs
            /\ \E i \in (Len(args) + 1)..NumIn(fnType) :
                 TypeName(In(fnType, i)) = "error"
    THEN Append(args, NilV)
  ELSE args

\* printArgMismatch: the message of mustArgMatch.  Expected lists the
\* parameter types ("..." before the element type of a variadic tail),
\* Received the dynamic types of the values ("invalid" for a nil).
printArgMismatch(fnType, args) ==
  [text |-> "Return() called with the wrong arguments!",
   expected |-> [i \in 1..NumIn(fnType) |->
                   IF IsVariadic(fnType) /\ i = NumIn(fnType)
                     THEN "..." \o fnType.in[i]
                     ELSE fnType.in[i]],
   received |-> [i \in 1..Len(args) |->
                   IF args[i] = NilV THEN "invalid" ELSE args[i].t]]

\* (mutant) Return is called before the values are matched
CallReturn_returnFirst(call, args, retErr, zeroValueErrs) ==
  LET fnType == call.returnType
      ra == returnArgs(fnType, args, retErr, zeroValueErrs)
  IN
  IF ~argsMatch(fnType, ra)
    THEN [abort |-> "mismatch",
          call |-> [call EXCEPT !.ReturnArguments = ra, !.returned = TRUE],
          msg |-> printArgMismatch(fnType, ra)]
    ELSE returnMethodCall(call, ra)

\* CallReturn (mustArgMatch panics on a mismatch; a toReflectValues error
\* is returned and the caller panics with it)
CallReturn(call, args, retErr, zeroValueErrs) ==
  LET fnType == call.returnType
      ra == returnArgs(fnType, args, retErr, zeroValueErrs)
      rv == toReflectValues(ra, fnType)
  IN
  IF ~argsMatch(fnType, ra)
    THEN [abort |-> "mismatch", call |-> call,
          msg |-> printArgMismatch(fnType, ra)]
  ELSE IF rv.err
    THEN [abort |-> "toReflectValues", call |-> call,
          msg |-> TextMsg("toReflectValues failed to transform return values")]
  ELSE returnMethodCall(call, rv.values)

\* ------------------------------------------------------------------------
\* Expect and its builders (tpp.go)
\* ------------------------------------------------------------------------
\* Expected is a *bool: "nil", "true" or "false".  Return is a []any that
\* may be nil; Err is NilV when no error is set.

\* the zero value: var e tpp.Expect
ZeroExpect ==
  [Expected |-> "nil", Return |-> NilSlice, Err |-> NilV,
   argReplacements |-> <<>>, nTimes |-> 0, exactReturn |-> FALSE]

\* Return(returns ...any)
Return(returns) ==
  [ZeroExpect EXCEPT !.Expected = "true", !.Return = returns,
                     !.exactReturn = TRUE]

\* OK(returns ...any)
OK(returns) ==
  [ZeroExpect EXCEPT !.Expected = "true", !.Return = returns]

\* Err()
Err == [ZeroExpect EXCEPT !.Expected = "true", !.Err = errDefault]

\* ErrWith(e)
ErrWith(e) == [ZeroExpect EXCEPT !.Expected = "true", !.Err = e]

\* Unexpected()
Unexpected == [ZeroExpect EXCEPT !.Expected = "false"]

\* Given(args...).Return(returns...)
GivenReturn(args, returns) ==
  [ZeroExpect EXCEPT !.Expected = "true", !.argReplacements = args,
                     !.Return = returns, !.exactReturn = TRUE]

\* Expect.Injecting(ret)
Injecting(e, ret) ==
  [ZeroExpect EXCEPT !.Expected = e.Expected,
                     !.Return = MkSlice(Append(e.Return.vals, ret)),
                     !.Err = e.Err,
                     !.exactReturn = e.exactReturn]

\* Expect.Times(n)
Times(e, n) == [e EXCEPT !.nTimes = n]

\* Expect.Once()
Once(e) == Times(e, 1)

\* ------------------------------------------------------------------------
\* The mock call (testify's mock.Call, possibly behind a generated wrapper)
\* ------------------------------------------------------------------------
\* Mock.On / the Expecter helper of a generated mock: a fresh call entry
NewCall(handle, returnType, args) ==
  [handle |-> handle, returnType |-> returnType, Arguments |-> args,
   ReturnArguments |-> <<>>, optional |-> FALSE, Repeatability |-> 0,
   Parent |-> "mock", returned |-> FALSE]

\* (mutant) Maybe() that forgets to mark the call optional
Maybe_noop(call) == call

\* MockCall.Maybe()
Maybe(call) == [call EXCEPT !.optional = TRUE]

\* (mutant) Times(n) that adds to the count already set
CallTimes_add(call, n) == [call EXCEPT !.Repeatability = @ + n]

\* MockCall.Times(n)
CallTimes(call, n) == [call EXCEPT !.Repeatability = n]

\* ------------------------------------------------------------------------
\* Expectorise
\* ------------------------------------------------------------------------
\* safeUnsetCall: drop the entry identical to the call from ExpectedCalls
\* (mutant) the removal is not guarded by the identity test: when no entry
\* is the call, the last entry goes
RECURSIVE removeFirst_orLast(_, _)
removeFirst_orLast(list, id) ==
  IF list = <<>> THEN <<>>
  ELSE IF Head(list) = id \/ Len(list) = 1 THEN Tail(list)
  ELSE <<Head(list)>> \o removeFirst_orLast(Tail(list), id)

\* (mutant) the entries behind the removed one are lost (calls[:i] alone)
RECURSIVE removeFirst_truncate(_, _)
removeFirst_truncate(list, id) ==
  IF list = <<>> THEN <<>>
  ELSE IF Head(list) = id THEN <<>>
  ELSE <<Head(list)>> \o removeFirst_truncate(Tail(list), id)

RECURSIVE removeFirst(_, _)
removeFirst(list, id) ==
  IF list = <<>> THEN <<>>
  ELSE IF Head(list) = id THEN Tail(list)
  ELSE <<Head(list)>> \o removeFirst(Tail(list), id)

\* (mutant) unset in the way of the native Call.Unset(), which does not find
\* an entry keyed by an argument matcher
safeUnsetCall_native(call, list, id) ==
  IF call.Parent = "nil" \/ \E i \in 1..Len(call.Arguments) : call.Arguments[i] = MatcherV
    THEN list
    ELSE removeFirst(list, id)

safeUnsetCall(call, list, id) ==
  IF call.Parent = "nil" THEN list ELSE removeFirst(list, id)

\* (mutant) the replacements are consumed one per placeholder: the k-th
\* placeholder takes the k-th replacement
replaceArgs_sequential(args, argReplacements) ==
  [i \in 1..Len(args) |->
     IF args[i].t = Arg.t
       THEN LET k == Cardinality({j \in 1..i : args[j].t = Arg.t})
            IN IF k > Len(argReplacements) THEN Anything ELSE argReplacements[k]
       ELSE args[i]]

\* the argument vector Expectorise writes back: every tpp.Arg() of the
\* call is replaced by the replacement at the same index, or by
\* mock.Anything when the replacements are shorter
replaceArgs(args, argReplacements) ==
  [i \in 1..Len(args) |->
     IF args[i].t = Arg.t
       THEN IF i > Len(argReplacements) THEN Anything ELSE argReplacements[i]
       ELSE args[i]]

\* (mutant) the default returns are looked at before the error of the Expect
configureReturn_defaultsBeforeErr(e, call, defaultReturns) ==
  IF ~e.Return.isNil
    THEN CallReturn(call, e.Return.vals, e.Err, ~e.exactReturn)
  ELSE IF ~defaultReturns.isNil
    THEN CallReturn(call, defaultReturns.vals, NilV, FALSE)
  ELSE IF e.Err # NilV
    THEN CallReturnEmpty(call, e.Err)
  ELSE CallReturnEmpty(call, NilV)

\* the switch that configures the returns
configureReturn(e, call, defaultReturns) ==
  IF ~e.Return.isNil
    THEN CallReturn(call, e.Return.vals, e.Err, ~e.exactReturn)
  ELSE IF e.Err # NilV
    THEN CallReturnEmpty(call, e.Err)
  ELSE IF ~defaultReturns.isNil
    THEN CallReturn(call, defaultReturns.vals, NilV, FALSE)
  ELSE CallReturnEmpty(call, NilV)

\* Expect.Expectorise for an Expect that is not unexpected: the call as it
\* is left, and the panic ("" when it completes)
expectoriseCall(e, call, defaultReturns) ==
  LET c1 == IF e.Expected = "nil" THEN Maybe(call) ELSE call
      c2 == IF e.nTimes > 0 THEN CallTimes(c1, e.nTimes) ELSE c1
      adaptErr == newReflectedMockCall(c2.handle)
      set == SetArguments(c2, replaceArgs(GetArguments(c2), e.argReplacements))
  IN
  IF adaptErr # "" THEN [abort |-> "adapt", call |-> c2, msg |-> TextMsg(adaptErr)]
  ELSE IF set.abort # "" THEN set
  ELSE configureReturn(e, set.call, defaultReturns)

\* Expect.Expectorise as a whole, on the call with identity id and the
\* ExpectedCalls list of its mock.  An unexpected Expect only unsets the
\* call: unsetMock reads the entry through Maybe() and removes it from the
\* owning mock.  A panic leaves the effects that came before it.
expectoriseOn(e, call, list, id, defaultReturns) ==
  IF e.Expected = "false"
    THEN [abort |-> "", msg |-> NoMsg, call |-> Maybe(call),
          list |-> safeUnsetCall(call, list, id)]
    ELSE LET r == expectoriseCall(e, call, defaultReturns)
         IN [abort |-> r.abort, msg |-> r.msg, call |-> r.call, list |-> list]

\* ------------------------------------------------------------------------
\* ExpectoriseMulti
\* ------------------------------------------------------------------------
\* callFn(): the factory registers a fresh call of the shape
\* <<handle, Return type, arguments>> on the mock
callFn(shape) == NewCall(shape[1], shape[2], shape[3])

\* A run of ExpectoriseMulti is folded over the record [calls, list, abort,
\* msg, made]: the calls and the ExpectedCalls of the mock, how the run
\* ended, and how often the factory was invoked.

\* the loop over a non-nil []Expect: one fresh call per Expect, Expectorised
\* without options; a panic ends the loop
\* (mutant) Expectorise uses up the argument replacements of the Expect it
\* is given: an equal Expect later in the list has none left
RECURSIVE expectoriseEach_consumes(_, _, _)
expectoriseEach_consumes(ee, shape, st) ==
  IF ee = <<>> \/ st.abort # "" THEN st
  ELSE LET id == Len(st.calls) + 1
           r == expectoriseOn(Head(ee), callFn(shape), Append(st.list, id), id,
                              NilSlice)
           rest == [i \in 1..(Len(ee) - 1) |->
                      IF ee[i + 1] = Head(ee)
                        THEN [ee[i + 1] EXCEPT !.argReplacements = <<>>]
                        ELSE ee[i + 1]]
       IN expectoriseEach_consumes(rest, shape,
            [calls |-> Append(st.calls, r.call), list |-> r.list,
             abort |-> r.abort, msg |-> r.msg, made |-> st.made + 1])

RECURSIVE expectoriseEach(_, _, _)
expectoriseEach(ee, shape, st) ==
  IF ee = <<>> \/ st.abort # "" THEN st
  ELSE LET id == Len(st.calls) + 1
           r == expectoriseOn(Head(ee), callFn(shape), Append(st.list, id), id,
                              NilSlice)
       IN expectoriseEach(Tail(ee), shape,
            [calls |-> Append(st.calls, r.call), list |-> r.list,
             abort |-> r.abort, msg |-> r.msg, made |-> st.made + 1])

\* the branch for a nil []Expect: one optional call that accepts anything
\* and returns the defaults or zero values
expectoriseNil(shape, defaultReturns, st) ==
  LET id == Len(st.calls) + 1
      call == Maybe(callFn(shape))
      adaptErr == newReflectedMockCall(call.handle)
      args == GetArguments(call)
      newargs == [i \in 1..Len(args) |->
                    IF args[i].t = Arg.t THEN Anything ELSE args[i]]
      set == SetArguments(call, newargs)
      r == IF adaptErr # ""
             THEN [abort |-> "adapt", call |-> call, msg |-> TextMsg(adaptErr)]
           ELSE IF set.abort # "" THEN set
           ELSE IF ~defaultReturns.isNil
             THEN CallReturn(set.call, defaultReturns.vals, NilV, FALSE)
           ELSE CallReturnEmpty(set.call, NilV)
  IN [calls |-> Append(st.calls, r.call), list |-> Append(st.list, id),
      abort |-> r.abort, msg |-> r.msg, made |-> st.made + 1]

\* (mutant) an empty []Expect is treated like a nil one
expectoriseMulti_emptyAsNil(ee, shape, defaultReturns, st) ==
  IF ee.isNil \/ ee.vals = <<>>
    THEN expectoriseNil(shape, defaultReturns, st)
    ELSE expectoriseEach(ee.vals, shape, st)

\* ExpectoriseMulti(ee, callFn, options...)
expectoriseMulti(ee, shape, defaultReturns, st) ==
  IF ee.isNil
    THEN expectoriseNil(shape, defaultReturns, st)
    ELSE expectoriseEach(ee.vals, shape, st)

\* ------------------------------------------------------------------------
\* State
\* ------------------------------------------------------------------------
\* calls: every call entry created so far; a call's identity is its index
\* ExpectedCalls: Mock.ExpectedCalls of the owning mock, a list of identities
\* expect: the Expect of the test case
\* last: what the last Expectorise was applied to and how it ended
\* hooks: the callbacks hooked on calls (RunFn: the calls that have one) and
\* how often a callback has run
VARIABLES calls, ExpectedCalls, expect, last, hooks

vars == <<calls, ExpectedCalls, expect, last, hooks>>

NoHooks == [RunFn |-> {}, ran |-> 0]

NoLast ==
  [op |-> "none", id |-> 0, abort |-> "", msg |-> NoMsg,
   defaultReturns |-> NilSlice, pre |-> <<>>, preCalls |-> <<>>,
   ee |-> NilSlice, shape |-> <<>>, made |-> 0]

\* sequences over S of length at most n
RECURSIVE SeqsUpTo(_, _)
SeqsUpTo(S, n) ==
  IF n = 0 THEN {<<>>}
  ELSE LET shorter == SeqsUpTo(S, n - 1)
       IN shorter \cup {Append(s, x) : s \in {t \in shorter : Len(t) = n - 1}, x \in S}

\* the call id is among the entries of the list
InList(list, id) == \E i \in 1..Len(list) : list[i] = id

\* a []any argument: nil or a vector
Slices(S, n) == {NilSlice} \cup {MkSlice(s) : s \in SeqsUpTo(S, n)}

\* ------------------------------------------------------------------------
\* Actions
\* ------------------------------------------------------------------------
\* mock.On(...) / mock.EXPECT().DoThing(...): registers a fresh call entry
On(handle, returnType, args) ==
  /\ Len(calls) < MaxCalls
  /\ calls' = Append(calls, NewCall(handle, returnType, args))
  /\ ExpectedCalls' = Append(ExpectedCalls, Len(calls) + 1)
  /\ last' = NoLast
  /\ UNCHANGED <<expect, hooks>>

\* expect.Expectorise(call, WithDefaultReturns(defaultReturns)); without
\* the option defaultReturns is nil.  An unexpected Expect only unsets the
\* call: unsetMock reads the entry through Maybe() and removes it from the
\* owning mock.  A panic leaves the effects that came before it.
Expectorise(id, defaultReturns) ==
  /\ id \in 1..Len(calls)
  /\ LET r == expectoriseOn(expect, calls[id], ExpectedCalls, id, defaultReturns)
     IN /\ calls' = [calls EXCEPT ![id] = r.call]
        /\ ExpectedCalls' = r.list
        /\ last' = [NoLast EXCEPT !.op = "Expectorise", !.id = id,
                                  !.abort = r.abort, !.msg = r.msg,
                                  !.defaultReturns = defaultReturns,
                                  !.pre = <<calls[id]>>,
                                  !.preCalls = ExpectedCalls]
  /\ UNCHANGED <<expect, hooks>>

\* ExpectoriseMulti(ee, callFn, WithDefaultReturns(defaultReturns)) with a
\* factory that registers calls of the given shape; last.id is the number
\* of calls there were before
ExpectoriseMulti(ee, shape, defaultReturns) ==
  /\ Len(calls) + (IF ee.isNil THEN 1 ELSE Len(ee.vals)) <= MaxCalls
  /\ LET r == expectoriseMulti(ee, shape, defaultReturns,
                  [calls |-> calls, list |-> ExpectedCalls, abort |-> "",
                   msg |-> NoMsg, made |-> 0])
     IN /\ calls' = r.calls
        /\ ExpectedCalls' = r.list
        /\ last' = [NoLast EXCEPT !.op = "ExpectoriseMulti", !.id = Len(calls),
                                  !.abort = r.abort, !.msg = r.msg,
                                  !.defaultReturns = defaultReturns,
                                  !.preCalls = ExpectedCalls,
                                  !.ee = ee, !.shape = shape, !.made = r.made]
  /\ UNCHANGED <<expect, hooks>>

\* expect = *expect.Injecting(ret): the test harness adds a return value
\* to the Expect of the case
Inject(ret) ==
  /\ Len(expect.Return.vals) <= MaxRet
  /\ expect' = Injecting(expect, ret)
  /\ last' = [NoLast EXCEPT !.op = "Injecting", !.pre = <<expect, ret>>]
  /\ UNCHANGED <<calls, ExpectedCalls, hooks>>

\* the next case of the table-driven test brings its own Expect
NextCase(e) ==
  /\ expect' = e
  /\ last' = NoLast
  /\ UNCHANGED <<calls, ExpectedCalls, hooks>>

\* rmock.mustArgMatch(fnType, args) on the Return type of call id with the
\* return values of the Expect as candidates
MustArgMatch(id) ==
  /\ id \in 1..Len(calls)
  /\ last.op = "none"
  /\ ~expect.Return.isNil
  /\ last' = [NoLast EXCEPT !.op = "mustArgMatch", !.id = id,
                            !.abort = mustArgMatch(calls[id].returnType,
                                                   expect.Return.vals),
                            !.pre = <<calls[id]>>]
  /\ UNCHANGED <<calls, ExpectedCalls, expect, hooks>>

\* (mutant) the callback is run once when it is registered
registerCallback_runsNow(e, abort, id, h) ==
  IF e.Expected # "false" /\ abort = ""
    THEN [RunFn |-> h.RunFn \cup {id}, ran |-> h.ran + 1]
    ELSE h

\* step 7 of Expectorise: the callback of the option is hooked on the call
\* through the framework's run-on-call hook; it is the last step, reached
\* only when the Expect is not unexpected and no earlier step panicked
registerCallback(e, abort, id, h) ==
  IF e.Expected # "false" /\ abort = ""
    THEN [h EXCEPT !.RunFn = @ \cup {id}]
    ELSE h

\* expect.Expectorise(call, options...) with a callback among the options
ExpectoriseCallback(id, defaultReturns) ==
  /\ id \in 1..Len(calls)
  /\ LET r == expectoriseOn(expect, calls[id], ExpectedCalls, id, defaultReturns)
     IN /\ calls' = [calls EXCEPT ![id] = r.call]
        /\ ExpectedCalls' = r.list
        /\ hooks' = registerCallback(expect, r.abort, id, hooks)
        /\ last' = [NoLast EXCEPT !.op = "ExpectoriseCallback", !.id = id,
                                  !.abort = r.abort, !.msg = r.msg,
                                  !.defaultReturns = defaultReturns,
                                  !.pre = <<calls[id], hooks>>,
                                  !.preCalls = ExpectedCalls]
  /\ UNCHANGED expect

\* the code under test invokes the mocked method and the framework matches
\* it to the registered call id: the hook of the call, if any, runs before
\* the invocation returns
Invoke(id) ==
  /\ InList(ExpectedCalls, id)
  /\ hooks.ran < MaxInvoke
  /\ hooks' = IF id \in hooks.RunFn THEN [hooks EXCEPT !.ran = @ + 1] ELSE hooks
  /\ last' = [NoLast EXCEPT !.op = "Invoke", !.id = id,
                            !.pre = <<calls[id], hooks>>]
  /\ UNCHANGED <<calls, ExpectedCalls, expect>>

\* ------------------------------------------------------------------------
\* Input domains
\* ------------------------------------------------------------------------
\* func(int, error): the Return of the generated MockIntyThing_DoThing_Call
IntErrorReturn == [in |-> <<"int", "error">>, variadic |-> FALSE]

\* Return types of generated (typed, never variadic) wrappers and of a bare
\* testify call
TypedReturns == {[in |-> s, variadic |-> FALSE] : s \in SeqsUpTo(ElemTypes, MaxSig)}

ReturnTypes == TypedReturns \cup {BareReturn}

HandleOf(returnType) == IF returnType = BareReturn THEN "call" ELSE "wrapper"

ArgVals == {NilV, Arg, Anything, IntV(1), IntV(2)}

RetVals == {NilV, IntV(1), ErrV(2), PtrV(0), PtrV(1)}

ErrVals == {NilV, errDefault, ErrV(2)}

\* ------------------------------------------------------------------------
\* Spec: a mock on which calls are registered and Expectorised
\* ------------------------------------------------------------------------
\* (handle, Return type, arguments) of the calls registered: a bare call
\* keyed by a literal, a bare call keyed by an argument matcher, and a
\* generated wrapper set up with a placeholder
MockShapes ==
  {<<"call", BareReturn, <<IntV(1)>> >>,
   <<"call", BareReturn, <<MatcherV>> >>,
   <<"wrapper", IntErrorReturn, <<Arg>> >>}

MockExpects ==
  {ZeroExpect, Unexpected, Err, Once(Return(MkSlice(<<IntV(1), NilV>>)))}

Init ==
  /\ calls = <<>>
  /\ ExpectedCalls = <<>>
  /\ expect = ZeroExpect
  /\ last = NoLast
  /\ hooks = NoHooks

Next ==
  \/ \E sh \in MockShapes : On(sh[1], sh[2], sh[3])
  \/ \E e \in MockExpects : NextCase(e)
  \/ \E id \in 1..MaxCalls : Expectorise(id, NilSlice)

Spec == Init /\ [][Next]_vars

\* ------------------------------------------------------------------------
\* SpecReturn: one registered call of any Return type and one Expect with
\* any return values and error; Expectorise is applied once
\* ------------------------------------------------------------------------
ReturnArgRepl == {<<>>, <<IntV(2), IntV(2)>>}

ReturnExpects ==
  {Unexpected} \cup
  {[Expected |-> x, Return |-> r, Err |-> er, argReplacements |-> a,
    nTimes |-> 0, exactReturn |-> ex] :
     x \in {"nil", "true"}, r \in Slices(RetVals, MaxRet), er \in ErrVals,
     a \in ReturnArgRepl, ex \in BOOLEAN}

\* WithDefaultReturns(...) or no option
DefaultReturns ==
  {NilSlice, MkSlice(<<>>), MkSlice(<<IntV(1)>>), MkSlice(<<IntV(1), NilV>>)}

InitReturn ==
  /\ \E rt \in ReturnTypes :
       calls = <<NewCall(HandleOf(rt), rt, <<Arg, IntV(1)>>)>>
  /\ ExpectedCalls = <<1>>
  /\ expect \in ReturnExpects
  /\ last = NoLast
  /\ hooks = NoHooks

NextReturn ==
  \E d \in DefaultReturns : last.op = "none" /\ Expectorise(1, d)

SpecReturn == InitReturn /\ [][NextReturn]_vars

\* ------------------------------------------------------------------------
\* SpecArgs: one registered call with any arguments, as registered or
\* limited to one use (mock.On(...).Once()), and one Expect with any
\* argument replacements; Expectorise is applied once
\* ------------------------------------------------------------------------
ArgReturns == {MkSlice(<<IntV(1), NilV>>), MkSlice(<<PtrV(1), ErrV(2)>>)}

ArgExpects ==
  {ZeroExpect} \cup {Times(Err, n) : n \in 0..MaxTimes} \cup
  {GivenReturn(a, r) : a \in SeqsUpTo(ArgVals, MaxArgs), r \in ArgReturns}

InitArgs ==
  /\ \E rt \in {IntErrorReturn, BareReturn}, a \in SeqsUpTo(ArgVals, MaxArgs),
        r \in 0..1 :
       calls = <<CallTimes(NewCall(HandleOf(rt), rt, a), r)>>
  /\ ExpectedCalls = <<1>>
  /\ expect \in ArgExpects
  /\ last = NoLast
  /\ hooks = NoHooks

NextArgs == last.op = "none" /\ Expectorise(1, NilSlice)

SpecArgs == InitArgs /\ [][NextArgs]_vars

\* ------------------------------------------------------------------------
\* SpecMulti: ExpectoriseMulti is applied to a mock, over and over while
\* there is room for the calls
\* ------------------------------------------------------------------------
MultiShapes ==
  {<<"wrapper", IntErrorReturn, <<Arg>> >>,
   <<"call", BareReturn, <<Arg, IntV(1)>> >>,
   <<"wrapper", IntErrorReturn, <<Arg, NilV>> >>}

MultiExpects ==
  {ZeroExpect, Unexpected, Err,
   Return(MkSlice(<<IntV(1), NilV>>)),
   GivenReturn(<<IntV(2)>>, MkSlice(<<IntV(2), NilV>>)),
   GivenReturn(<<NilV>>, MkSlice(<<IntV(1), NilV>>))}

MultiDefaults ==
  {NilSlice, MkSlice(<<IntV(2), errDefault>>), MkSlice(<<IntV(1)>>)}

NextMulti ==
  \E ee \in Slices(MultiExpects, MaxCalls), shape \in MultiShapes,
     d \in MultiDefaults :
    ExpectoriseMulti(ee, shape, d)

SpecMulti == Init /\ [][NextMulti]_vars

\* ------------------------------------------------------------------------
\* SpecInject: an Expect of any build gets return values injected
\* ------------------------------------------------------------------------
InjectExpects ==
  ReturnExpects \cup {Times(e, n) : e \in ArgExpects, n \in 1..MaxTimes}

InitInject ==
  /\ calls = <<>>
  /\ ExpectedCalls = <<>>
  /\ expect \in InjectExpects
  /\ last = NoLast
  /\ hooks = NoHooks

NextInject == \E ret \in RetVals : Inject(ret)

SpecInject == InitInject /\ [][NextInject]_vars

\* ------------------------------------------------------------------------
\* SpecAdapt: Expectorise is applied once to a handle that may not be
\* adaptable
\* ------------------------------------------------------------------------
BadHandles ==
  {"notStruct", "noArguments", "argsNotSlice", "argsNotSettable", "noReturn"}

AdaptShapes ==
  {<<"call", BareReturn>>, <<"wrapper", IntErrorReturn>>}
    \cup {<<h, IntErrorReturn>> : h \in BadHandles}

InitAdapt ==
  /\ \E sh \in AdaptShapes, a \in SeqsUpTo({Arg, IntV(1)}, MaxArgs) :
       calls = <<NewCall(sh[1], sh[2], a)>>
  /\ ExpectedCalls = <<1>>
  /\ expect \in MockExpects
  /\ last = NoLast
  /\ hooks = NoHooks

NextAdapt ==
  \E d \in DefaultReturns : last.op = "none" /\ Expectorise(1, d)

SpecAdapt == InitAdapt /\ [][NextAdapt]_vars

\* ------------------------------------------------------------------------
\* SpecUnset: a mock with up to MaxList calls, some of them no longer (or
\* never) in ExpectedCalls, some built without a mock; Unexpected() is
\* applied to them over and over
\* ------------------------------------------------------------------------
\* &mock.Call{...}: a call entry that has no owning mock
Orphan(call) == [call EXCEPT !.Parent = "nil"]

UnsetCalls ==
  LET c == {NewCall("call", BareReturn, <<IntV(1)>>),
            NewCall("call", BareReturn, <<MatcherV>>),
            NewCall("wrapper", IntErrorReturn, <<Arg>>)}
  IN c \cup {Orphan(x) : x \in c}

\* the identities among ids, in order
Keep(n, ids) == SelectSeq([i \in 1..n |-> i], LAMBDA i : i \in ids)

InitUnset ==
  /\ calls \in (SeqsUpTo(UnsetCalls, MaxList) \ {<<>>})
  /\ \E ids \in SUBSET {i \in 1..Len(calls) : calls[i].Parent = "mock"} :
       ExpectedCalls = Keep(Len(calls), ids)
  /\ expect = Unexpected
  /\ last = NoLast
  /\ hooks = NoHooks

NextUnset == \E id \in 1..MaxList : Expectorise(id, NilSlice)

SpecUnset == InitUnset /\ [][NextUnset]_vars

\* ------------------------------------------------------------------------
\* SpecCallback: one registered call is Expectorised, with or without a
\* callback option, by one test case after another, and is invoked by the
\* code under test in between
\* ------------------------------------------------------------------------
CallbackExpects == MockExpects

InitCallback ==
  /\ \E sh \in MockShapes : calls = <<NewCall(sh[1], sh[2], sh[3])>>
  /\ ExpectedCalls = <<1>>
  /\ expect \in CallbackExpects
  /\ last = NoLast
  /\ hooks = NoHooks

NextCallback ==
  \/ \E d \in DefaultReturns : ExpectoriseCallback(1, d)
  \/ Expectorise(1, NilSlice)
  \/ \E e \in CallbackExpects : NextCase(e)
  \/ Invoke(1)

SpecCallback == InitCallback /\ [][NextCallback]_vars

\* ------------------------------------------------------------------------
\* SpecMatch: the matcher is applied to a Return type of any parameter
\* kinds, variadic or not, and a candidate vector of any length
\* ------------------------------------------------------------------------
MatchElemTypes == ElemTypes \cup {"map[int]int", "func()", "chan int", "[]int"}

MatchTypes ==
  {[in |-> s, variadic |-> v] :
     s \in SeqsUpTo(MatchElemTypes, MaxSig), v \in BOOLEAN} \
  {[in |-> <<>>, variadic |-> TRUE]}

MatchVals == {NilV, IntV(1), ErrV(2), PtrV(1)}

InitMatch ==
  /\ \E fnType \in MatchTypes : calls = <<NewCall("wrapper", fnType, <<>>)>>
  /\ ExpectedCalls = <<1>>
  /\ \E args \in SeqsUpTo(MatchVals, MaxSig + 1) : expect = Return(MkSlice(args))
  /\ last = NoLast
  /\ hooks = NoHooks

NextMatch == MustArgMatch(1)

SpecMatch == InitMatch /\ [][NextMatch]_vars

\* ------------------------------------------------------------------------
\* SpecEmpty: Expectorise is applied once, with an Expect that has no return
\* values, to a call whose Return has any parameters, variadic or not
\* ------------------------------------------------------------------------
EmptyTypes ==
  {[in |-> s, variadic |-> v] :
     s \in SeqsUpTo(ElemTypes \cup {"[]int"}, MaxSig), v \in BOOLEAN} \
  {[in |-> <<>>, variadic |-> TRUE]}

EmptyExpects == {ZeroExpect, Err, ErrWith(ErrV(2)), Once(Err)}

InitEmpty ==
  /\ \E rt \in EmptyTypes : calls = <<NewCall(HandleOf(rt), rt, <<IntV(1)>>)>>
  /\ ExpectedCalls = <<1>>
  /\ expect \in EmptyExpects
  /\ last = NoLast
  /\ hooks = NoHooks

NextEmpty == last.op = "none" /\ Expectorise(1, NilSlice)

SpecEmpty == InitEmpty /\ [][NextEmpty]_vars

\* ------------------------------------------------------------------------
\* SpecRedo: one registered call is Expectorised by one test case after
\* another, some with return values that do not fit its Return
\* ------------------------------------------------------------------------
\* tpp.Expect{Return: []any{&Struct{}}} limited to MaxTimes uses: it fits a
\* bare call and is a mismatch for func(int, error)
PtrReturn == Times([ZeroExpect EXCEPT !.Return = MkSlice(<<PtrV(1)>>)], MaxTimes)

RedoExpects ==
  MockExpects \cup
  {PtrReturn, GivenReturn(<<IntV(2)>>, MkSlice(<<PtrV(1), ErrV(2)>>))}

InitRedo ==
  /\ \E sh \in MockShapes : calls = <<NewCall(sh[1], sh[2], sh[3])>>
  /\ ExpectedCalls = <<1>>
  /\ expect \in RedoExpects
  /\ last = NoLast
  /\ hooks = NoHooks

NextRedo ==
  \/ \E e \in RedoExpects : NextCase(e)
  \/ \E d \in DefaultReturns : Expectorise(1, d)

SpecRedo == InitRedo /\ [][NextRedo]_vars

\* ------------------------------------------------------------------------
\* SpecConvert: Expectorise is applied once, with return values from the
\* Expect or from the defaults, to a call whose Return has any parameters,
\* variadic or not
\* ------------------------------------------------------------------------
ConvertVals == {NilV, IntV(1), ErrV(2), PtrV(1)}

ConvertExpects ==
  {[Expected |-> "true", Return |-> r, Err |-> er, argReplacements |-> <<>>,
    nTimes |-> 0, exactReturn |-> ex] :
     r \in Slices(ConvertVals, MaxRet), er \in {NilV, errDefault},
     ex \in BOOLEAN}

ConvertDefaults == {NilSlice, MkSlice(<<NilV>>), MkSlice(<<IntV(1), NilV>>)}

InitConvert ==
  /\ \E rt \in EmptyTypes : calls = <<NewCall(HandleOf(rt), rt, <<IntV(1)>>)>>
  /\ ExpectedCalls = <<1>>
  /\ expect \in ConvertExpects
  /\ last = NoLast
  /\ hooks = NoHooks

NextConvert ==
  \E d \in ConvertDefaults : last.op = "none" /\ Expectorise(1, d)

SpecConvert == InitConvert /\ [][NextConvert]_vars

\* ------------------------------------------------------------------------
\* Vocabulary of the properties
\* ------------------------------------------------------------------------
\* an Expectorise has just been applied to call last.id
Applied == last.op = "Expectorise"

\* the call it was applied to, before and after
Before == last.pre[1]

After == calls[last.id]

\* every element of vals is a value of the declared parameter type at its
\* position (nil being a value of the interface types only)
TypedValue(x, typ) ==
  IF x = NilV THEN TypeKind(typ) = "Interface" ELSE AssignableTo(x.t, typ)

TypedMatch(fnType, vals) ==
  IF IsVariadic(fnType)
    THEN /\ Len(vals) >= NumIn(fnType) - 1
         /\ \A i \in 1..Len(vals) :
              TypedValue(vals[i], fnType.in[Min(i, NumIn(fnType))])
    ELSE /\ Len(vals) = NumIn(fnType)
         /\ \A i \in 1..Len(vals) : TypedValue(vals[i], fnType.in[i])

\* the zero values of the parameters of a typed Return
ZeroReturns(fnType) == [i \in 1..NumIn(fnType) |-> Zero(fnType.in[i])]

\* ------------------------------------------------------------------------
\* Properties
\* ------------------------------------------------------------------------

\* C1: Expectorise with an Unexpected() Expect applied to a call that is
\* registered on its mock (bare and keyed by a literal, bare and keyed by an
\* argument matcher, or a wrapper embedding the entry) leaves the mock's
\* ExpectedCalls without that call.
C1_UnexpectedRemovesRegistration ==
  (Applied /\ expect.Expected = "false" /\ InList(last.preCalls, last.id))
    => ~InList(ExpectedCalls, last.id)

\* C1 witness: a matcher-keyed call was unset while another call stays
C1_Witness ==
  /\ Applied
  /\ expect = Unexpected
  /\ Len(last.preCalls) = 2
  /\ InList(last.preCalls, last.id)
  /\ Before.Arguments = <<MatcherV>>
  /\ Len(ExpectedCalls) = 1

\* C2: for an Expect whose Expected is not false, after Expectorise the call
\* is optional exactly when Expected is nil.
C2_OptionalIffExpectedNil ==
  (Applied /\ expect.Expected # "false")
    => (After.optional <=> expect.Expected = "nil")

\* C2 witness: the zero-valued Expect made the call optional
C2_Witness ==
  /\ Applied
  /\ last.abort = ""
  /\ expect = ZeroExpect
  /\ After.optional

\* C3: a zero-valued Expect without options configures, for a typed Return
\* with N parameters, exactly the N zero values of the parameter types, and
\* for a bare call (Return(...any)) no return value at all.
C3_ZeroExpectEmptyReturns ==
  (Applied /\ expect = ZeroExpect /\ last.defaultReturns.isNil)
    => /\ last.abort = ""
       /\ After.returned
       /\ After.ReturnArguments =
            IF After.returnType = BareReturn THEN <<>>
            ELSE ZeroReturns(After.returnType)

\* C3 witness: two zero values were configured on a func(int, error) Return
C3_Witness ==
  /\ Applied
  /\ expect = ZeroExpect
  /\ last.defaultReturns.isNil
  /\ After.returnType = IntErrorReturn
  /\ After.ReturnArguments = <<IntV(0), NilV>>

\* C4: Return(V...) with V a vector of values of the declared parameter
\* types (same length) configures the return values to be exactly V,
\* nothing appended and nothing replaced.
C4_ReturnFidelity ==
  (/\ Applied
   /\ expect = Return(expect.Return)
   /\ last.defaultReturns.isNil
   /\ TypedMatch(After.returnType, expect.Return.vals))
    => /\ last.abort = ""
       /\ After.returned
       /\ After.ReturnArguments = expect.Return.vals

\* C4 witness: Return(1, nil) was configured on a func(int, error) Return
C4_Witness ==
  /\ Applied
  /\ expect = Return(MkSlice(<<IntV(1), NilV>>))
  /\ After.returnType = IntErrorReturn
  /\ After.ReturnArguments = <<IntV(1), NilV>>

\* C5: OK(V...) with V the values of the non-error parameters of a Return
\* whose last parameter is the error configures V followed by a nil error.
C5_OKNilsError ==
  LET fnType == After.returnType
      n == NumIn(fnType)
      V == expect.Return.vals
  IN
  (/\ Applied
   /\ expect = OK(expect.Return)
   /\ last.defaultReturns.isNil
   /\ ~IsVariadic(fnType)
   /\ n = Len(V) + 1
   /\ fnType.in[n] = "error"
   /\ \A i \in 1..Len(V) : fnType.in[i] # "error" /\ TypedValue(V[i], fnType.in[i]))
    => /\ last.abort = ""
       /\ After.returned
       /\ After.ReturnArguments = Append(V, NilV)

\* C5 witness: OK(1) was completed to (1, nil) on a func(int, error) Return
C5_Witness ==
  /\ Applied
  /\ expect = OK(MkSlice(<<IntV(1)>>))
  /\ After.returnType = IntErrorReturn
  /\ After.ReturnArguments = <<IntV(1), NilV>>

\* C6: an Expect built by Return(V...) is never completed with a nil error:
\* when V leaves out the error parameter of a typed Return, Expectorise
\* rejects it as a mismatch and configures nothing.
C6_ExactReturnRejectsOmittedError ==
  LET fnType == After.returnType
      V == expect.Return.vals
  IN
  (/\ Applied
   /\ expect = GivenReturn(expect.argReplacements, expect.Return)
   /\ last.defaultReturns.isNil
   /\ ~IsVariadic(fnType)
   /\ Len(V) < NumIn(fnType)
   /\ \E i \in (Len(V) + 1)..NumIn(fnType) : fnType.in[i] = "error")
    => /\ last.abort = "mismatch"
       /\ ~After.returned

\* C7: Err() and ErrWith(e) on a typed Return that has an error parameter
\* configure one value per parameter: the error in the error-typed
\* parameters, the zero value elsewhere.
C7_ErrInjection ==
  LET fnType == After.returnType IN
  (/\ Applied
   /\ expect = ErrWith(expect.Err)
   /\ expect.Err # NilV \/ last.defaultReturns.isNil
   /\ ~IsVariadic(fnType)
   /\ \E i \in 1..NumIn(fnType) : fnType.in[i] = "error")
    => /\ last.abort = ""
       /\ After.returned
       /\ After.ReturnArguments =
            [i \in 1..NumIn(fnType) |->
               IF fnType.in[i] = "error" THEN expect.Err ELSE Zero(fnType.in[i])]

\* C7 witness: Err() configured (0, errDefault) on a func(int, error) Return
C7_Witness ==
  /\ Applied
  /\ expect = Err
  /\ errDefault # NilV
  /\ After.returnType = IntErrorReturn
  /\ After.ReturnArguments = <<IntV(0), errDefault>>

\* n placeholders
Placeholders(n) == [i \in 1..n |-> Arg]

\* how many of the first i arguments are placeholders
PlaceholdersUpTo(args, i) == Cardinality({j \in 1..i : args[j] = Arg})

\* C8: Given(A...).Return(V...) applied to a call set up with exactly
\* Len(A) placeholders leaves the call with the arguments A and the return
\* values V.
C8_GivenSetsArgsAndReturn ==
  (/\ Applied
   /\ expect = GivenReturn(expect.argReplacements, expect.Return)
   /\ Before.Arguments = Placeholders(Len(expect.argReplacements))
   /\ TypedMatch(After.returnType, expect.Return.vals))
    => /\ last.abort = ""
       /\ After.Arguments = expect.argReplacements
       /\ After.ReturnArguments = expect.Return.vals

\* C9 as claimed: the k-th placeholder of the call, counting placeholders
\* only, receives the k-th replacement, however many other arguments
\* precede it.
C9_KthPlaceholderKthOverride ==
  (Applied /\ expect.Expected # "false" /\ last.abort = "")
    => \A i \in 1..Len(Before.Arguments) :
         LET k == PlaceholdersUpTo(Before.Arguments, i) IN
         (Before.Arguments[i] = Arg /\ k <= Len(expect.argReplacements))
           => After.Arguments[i] = expect.argReplacements[k]

\* C9 as amended: a placeholder at position i of the call receives the
\* replacement at the same position i, or mock.Anything when there are
\* fewer than i replacements; the other arguments stay.  The vector is
\* written back unless it holds a nil, in which case SetArguments panics
\* and the arguments stay as they were.
C9_PlaceholderGetsSamePosition ==
  LET B == Before.Arguments
      R == expect.argReplacements
      new == [i \in 1..Len(B) |->
                IF B[i] # Arg THEN B[i]
                ELSE IF i <= Len(R) THEN R[i] ELSE Anything]
      hasNil == \E i \in 1..Len(B) : new[i] = NilV
  IN
  (Applied /\ expect.Expected # "false")
    => /\ hasNil <=> last.abort = "SetArguments"
       /\ After.Arguments = IF hasNil THEN B ELSE new

\* C9 witness: the placeholder in second position, behind a literal, took
\* the second replacement
C9_Witness ==
  /\ Applied
  /\ Before.Arguments = <<IntV(2), Arg>>
  /\ expect.argReplacements = <<IntV(2), IntV(1)>>
  /\ After.Arguments = <<IntV(2), IntV(1)>>

\* C10: when the Given(...) of the Expect and the arguments of the call are
\* complementary (each position is a placeholder on exactly one side), the
\* call ends with the value of the other side at every position, without
\* any placeholder, and with the return values given.
C10_ArgInjection ==
  LET A == expect.argReplacements
      B == Before.Arguments
  IN
  (/\ Applied
   /\ expect = GivenReturn(A, expect.Return)
   /\ Len(A) = Len(B)
   /\ \A i \in 1..Len(A) : (A[i] = Arg) # (B[i] = Arg)
   /\ TypedMatch(After.returnType, expect.Return.vals))
    => /\ last.abort = ""
       /\ After.Arguments = [i \in 1..Len(A) |-> IF A[i] = Arg THEN B[i] ELSE A[i]]
       /\ \A i \in 1..Len(After.Arguments) : After.Arguments[i] # Arg
       /\ After.ReturnArguments = expect.Return.vals

\* C11: after Expectorise with an Expect that is not unexpected, every
\* placeholder of the call that has no replacement left (the k-th
\* placeholder with k beyond the replacements) is mock.Anything; none is
\* left as it was, whether by an index error or by a panic.
C11_WildcardFallback ==
  LET B == Before.Arguments
      R == expect.argReplacements
  IN
  (Applied /\ expect.Expected # "false")
    => \A i \in 1..Len(B) :
         (B[i] = Arg /\ PlaceholdersUpTo(B, i) > Len(R))
           => After.Arguments[i] = Anything

\* the values a Return keeps when it is handed vals: a nil becomes the zero
\* value of the parameter it is aligned with
StoredAs(fnType, vals) ==
  [i \in 1..Len(vals) |->
     IF vals[i] = NilV THEN Zero(fnType.in[Min(i, NumIn(fnType))]) ELSE vals[i]]

\* C12: the return configuration follows a strict priority.  (a) Return
\* values of the Expect, when set, are what is configured (or the run
\* panics and nothing is configured); (b) otherwise an error of the Expect
\* is configured over zero values and the defaults are never looked at;
\* (c) otherwise the defaults of WithDefaultReturns are configured or
\* rejected; (d) otherwise zero values.
C12_ReturnPriority ==
  LET fnType == After.returnType
      V == expect.Return
      E == expect.Err
      D == last.defaultReturns
      RA == After.ReturnArguments
  IN
  (Applied /\ expect.Expected # "false")
    => /\ ~V.isNil =>
            IF last.abort = ""
              THEN /\ Len(RA) >= Len(V.vals)
                   /\ SubSeq(RA, 1, Len(V.vals)) = StoredAs(fnType, V.vals)
              ELSE ~After.returned
       /\ (V.isNil /\ E # NilV) =>
            /\ last.abort \in {"", "reflect.Call"}
            /\ last.abort = "" =>
                 IF fnType = BareReturn THEN RA = <<E>>
                 ELSE /\ Len(RA) = NumIn(fnType)
                      /\ \A i \in 1..Len(RA) : RA[i] \in {E, Zero(fnType.in[i])}
       /\ (V.isNil /\ E = NilV /\ ~D.isNil) =>
            IF last.abort = ""
              THEN RA = StoredAs(fnType, D.vals)
              ELSE last.abort = "mismatch" /\ ~After.returned
       /\ (V.isNil /\ E = NilV /\ D.isNil) =>
            /\ last.abort = ""
            /\ RA = IF fnType = BareReturn THEN <<>> ELSE ZeroReturns(fnType)

\* C12 witness: Err() with defaults that do not fit func(int, error): the
\* error was configured and the defaults were ignored
C12_Witness ==
  /\ Applied
  /\ last.abort = ""
  /\ expect = Err
  /\ last.defaultReturns = MkSlice(<<IntV(1)>>)
  /\ After.returnType = IntErrorReturn
  /\ After.ReturnArguments = <<IntV(0), errDefault>>

\* x cannot be passed for a parameter of type typ
WronglyTyped(x, typ) ==
  IF x = NilV
    THEN TypeKind(typ) \notin {"Interface", "Ptr", "Slice"}
    ELSE ~AssignableTo(x.t, typ)

\* vals has the wrong arity or a wrongly typed element for fnType
WrongShape(fnType, vals) ==
  \/ IF IsVariadic(fnType)
       THEN Len(vals) < NumIn(fnType) - 1
       ELSE Len(vals) # NumIn(fnType)
  \/ \E i \in 1..Len(vals) :
       /\ IsVariadic(fnType) \/ i <= NumIn(fnType)
       /\ WronglyTyped(vals[i], fnType.in[Min(i, NumIn(fnType))])

\* C13 as claimed: a vector of the wrong shape given as the return values of
\* the Expect or as the defaults of WithDefaultReturns always makes
\* Expectorise panic with the mismatch message, and nothing is configured.
C13_WrongShapeAlwaysPanics ==
  LET fnType == After.returnType
      V == expect.Return
      D == last.defaultReturns
  IN
  (/\ Applied
   /\ expect.Expected # "false"
   /\ \/ ~V.isNil /\ WrongShape(fnType, V.vals)
      \/ ~D.isNil /\ WrongShape(fnType, D.vals))
    => /\ last.abort = "mismatch"
       /\ ~After.returned

\* C13 as amended: what is validated is the vector that is handed to
\* Return: the return values of the Expect completed with its error (or,
\* for OK, with the nil error that is missing), or else the defaults when
\* the Expect has neither return values nor an error.  When that vector has
\* the wrong shape Expectorise panics with a message that lists the
\* parameter types expected and the types received, and nothing is
\* configured; otherwise there is no mismatch panic.  A vector that is not
\* handed to Return (defaults next to return values or an error) is not
\* validated, and a Return() or WithDefaultReturns() without values hands
\* nothing to validate.
C13_HandedVectorMismatchPanics ==
  LET fnType == After.returnType
      V == expect.Return
      E == expect.Err
      D == last.defaultReturns
      handed ==
        IF ~V.isNil
          THEN MkSlice(V.vals
                 \o (IF E # NilV THEN <<E>>
                     ELSE IF /\ ~expect.exactReturn
                             /\ \E i \in (Len(V.vals) + 1)..NumIn(fnType) :
                                  fnType.in[i] = "error" /\ ~(IsVariadic(fnType) /\ i = NumIn(fnType))
                       THEN <<NilV>>
                     ELSE <<>>))
        ELSE IF E = NilV THEN D
        ELSE NilSlice
  IN
  (Applied /\ expect.Expected # "false")
    => IF ~handed.isNil /\ WrongShape(fnType, handed.vals)
         THEN /\ last.abort = "mismatch"
              /\ ~After.returned
              /\ last.msg.expected =
                   [i \in 1..NumIn(fnType) |->
                      IF IsVariadic(fnType) /\ i = NumIn(fnType)
                        THEN "..." \o fnType.in[i] ELSE fnType.in[i]]
              /\ last.msg.received =
                   [i \in 1..Len(handed.vals) |->
                      IF handed.vals[i] = NilV THEN "invalid" ELSE handed.vals[i].t]
         ELSE last.abort # "mismatch"

\* C13 witness: the default (1) was rejected for a func(int, error) Return
C13_Witness ==
  /\ Applied
  /\ expect = ZeroExpect
  /\ last.defaultReturns = MkSlice(<<IntV(1)>>)
  /\ After.returnType = IntErrorReturn
  /\ last.abort = "mismatch"
  /\ last.msg.expected = <<"int", "error">>
  /\ last.msg.received = <<"int">>

\* C14: after Expectorise with an Expect carrying the repeat count n >= 1
\* (Times(n), Once() for n = 1) the Repeatability of the call is n; an
\* Expect without a repeat count leaves the Repeatability as it was.
C14_RepeatCount ==
  (Applied /\ expect.Expected # "false")
    => After.Repeatability =
         IF expect.nTimes >= 1 THEN expect.nTimes ELSE Before.Repeatability

\* C14 witness: Times(2) replaced the count 1 the call was registered with
C14_Witness ==
  /\ Applied
  /\ expect = Times(Err, 2)
  /\ Before.Repeatability = 1
  /\ After.Repeatability = 2

\* an ExpectoriseMulti has just been applied
Multi == last.op = "ExpectoriseMulti"

\* what one Expectorise does to a fresh call of the shape
Alone(e, shape, defaultReturns) ==
  expectoriseOn(e, callFn(shape), <<1>>, 1, defaultReturns)

\* the identities last.id + 1 .. last.id + n
NewIds(n) == [i \in 1..n |-> last.id + i]

\* C15: for a non-nil list of n >= 1 Expects whose return values fit the
\* factory's calls, ExpectoriseMulti invokes the factory n times and the
\* i-th new call is what Expectorise with the i-th Expect makes of a fresh
\* call; without Unexpected entries the n calls are registered in that
\* order.
C15_MultiAppliesInOrder ==
  LET ee == last.ee.vals
      n == Len(ee)
      one(i) == Alone(ee[i], last.shape, NilSlice)
  IN
  (/\ Multi
   /\ ~last.ee.isNil
   /\ n >= 1
   /\ \A i \in 1..n : one(i).abort \notin {"adapt", "mismatch", "toReflectValues", "reflect.Call"})
    => /\ last.abort = ""
       /\ last.made = n
       /\ Len(calls) = last.id + n
       /\ \A i \in 1..n : one(i).abort = "" /\ calls[last.id + i] = one(i).call
       /\ (\A i \in 1..n : ee[i].Expected # "false")
            => ExpectedCalls = last.preCalls \o NewIds(n)

\* C16: an empty, non-nil list never invokes the factory and registers
\* nothing, whatever the options.
C16_EmptyListRegistersNothing ==
  (Multi /\ ~last.ee.isNil /\ last.ee.vals = <<>>)
    => /\ last.abort = ""
       /\ last.made = 0
       /\ Len(calls) = last.id
       /\ ExpectedCalls = last.preCalls

\* C16 witness: an empty list with default returns on a mock that already
\* has a registered call
C16_Witness ==
  /\ Multi
  /\ last.ee = MkSlice(<<>>)
  /\ ~last.defaultReturns.isNil
  /\ last.made = 0
  /\ Len(calls) = 1
  /\ ExpectedCalls = <<1>>

\* C17: a nil list invokes the factory once and leaves one more registered
\* call, optional, with every placeholder replaced by mock.Anything, that
\* returns the defaults when there are (fitting) defaults and zero values
\* otherwise.
C17_NilListOneOptionalCall ==
  LET D == last.defaultReturns
      fnType == last.shape[2]
      args == last.shape[3]
      c == calls[last.id + 1]
  IN
  (Multi /\ last.ee.isNil /\ (D.isNil \/ ~WrongShape(fnType, D.vals)))
    => /\ last.abort = ""
       /\ last.made = 1
       /\ Len(calls) = last.id + 1
       /\ ExpectedCalls = last.preCalls \o NewIds(1)
       /\ c.optional
       /\ c.Arguments = [j \in 1..Len(args) |->
                           IF args[j] = Arg THEN Anything ELSE args[j]]
       /\ c.ReturnArguments =
            IF ~D.isNil THEN StoredAs(fnType, D.vals)
            ELSE IF fnType = BareReturn THEN <<>>
            ELSE ZeroReturns(fnType)

\* C18: with a non-empty list and WithDefaultReturns(D), D fitting the
\* calls, every Expect of the list that has neither return values nor an
\* error gets D configured, as a single Expectorise with the option does.
C18_MultiUsesDefaults ==
  LET ee == last.ee.vals
      D == last.defaultReturns
      fnType == last.shape[2]
  IN
  (/\ Multi
   /\ ~last.ee.isNil
   /\ last.abort = ""
   /\ ~D.isNil
   /\ ~WrongShape(fnType, D.vals))
    => \A i \in 1..Len(ee) :
         (ee[i].Expected # "false" /\ ee[i].Return.isNil /\ ee[i].Err = NilV)
           => /\ calls[last.id + i].ReturnArguments = StoredAs(fnType, D.vals)
              /\ calls[last.id + i] = Alone(ee[i], last.shape, D).call

\* an Injecting has just been applied to the Expect Receiver with the value
\* Injected
Injection == last.op = "Injecting"

Receiver == last.pre[1]

Injected == last.pre[2]

\* C19: Injecting(value) gives an Expect whose return values are those of
\* the receiver followed by value and whose other fields (Expected, Err,
\* argReplacements, nTimes, exactReturn) are those of the receiver.
C19_InjectingPreservesFields ==
  Injection
    => /\ ~expect.Return.isNil
       /\ expect.Return.vals = Append(Receiver.Return.vals, Injected)
       /\ expect.Expected = Receiver.Expected
       /\ expect.Err = Receiver.Err
       /\ expect.argReplacements = Receiver.argReplacements
       /\ expect.nTimes = Receiver.nTimes
       /\ expect.exactReturn = Receiver.exactReturn

\* the requirement a handle does not meet, as the adaptation error words it
UnmetRequirement(handle) ==
  CASE handle = "notStruct" -> "mock must be struct"
    [] handle = "noArguments" -> "args must be valid"
    [] handle = "argsNotSlice" -> "args must be slice"
    [] handle = "argsNotSettable" -> "args must be mutable"
    [] handle = "noReturn" -> "given mock has no Return method"

\* C20: the adaptation of a handle that is not a struct, has no Arguments
\* field, has Arguments that are not a slice or not settable, or has no
\* Return method fails with an error naming that requirement, and
\* Expectorise panics with it instead of going on: neither the arguments
\* nor the return values are touched.  Other handles are adapted.
C20_AdaptFailurePanics ==
  (Applied /\ expect.Expected # "false")
    => IF Before.handle \in BadHandles
         THEN /\ last.abort = "adapt"
              /\ last.msg.text = UnmetRequirement(Before.handle)
              /\ After.Arguments = Before.Arguments
              /\ ~After.returned
         ELSE last.abort # "adapt"

\* C20 witness: a handle without a Return method made Expectorise panic
\* after the call had been made optional
C20_Witness ==
  /\ Applied
  /\ expect = ZeroExpect
  /\ Before.handle = "noReturn"
  /\ Before.Arguments = <<Arg>>
  /\ last.abort = "adapt"
  /\ last.msg.text = "given mock has no Return method"
  /\ After.optional
  /\ After.Arguments = <<Arg>>

Without(list, i) == SubSeq(list, 1, i - 1) \o SubSeq(list, i + 1, Len(list))

\* C26: the unset removes exactly the entry that is the call: ExpectedCalls
\* afterwards is the list before with that one entry deleted, the others in
\* their order, wherever the entry was.
C26_UnsetRemovesExactlyOne ==
  (Applied /\ expect.Expected = "false")
    => \A i \in 1..Len(last.preCalls) :
         last.preCalls[i] = last.id => ExpectedCalls = Without(last.preCalls, i)

\* C26 witness: the middle entry of three was removed
C26_Witness ==
  /\ Applied
  /\ expect = Unexpected
  /\ last.preCalls = <<1, 2, 3>>
  /\ last.id = 2
  /\ ExpectedCalls = <<1, 3>>

\* C22: an Expectorise with a callback option that completes its steps hooks
\* the callback on the call and does not run it; from then on every
\* invocation of the call by the code under test runs the callback once,
\* before the invocation returns.
C22_CallbackRunsOnInvocationOnly ==
  /\ last.op = "ExpectoriseCallback"
       => /\ hooks.ran = last.pre[2].ran
          /\ (last.abort = "" /\ expect.Expected # "false")
               => last.id \in hooks.RunFn
  /\ (last.op = "Invoke" /\ last.id \in last.pre[2].RunFn)
       => hooks.ran = last.pre[2].ran + 1

\* C22 witness: the call was configured with a callback and has then been
\* invoked twice, the callback running each time
C22_Witness ==
  /\ last.op = "Invoke"
  /\ 1 \in hooks.RunFn
  /\ hooks.ran = 2

\* the matcher has just been applied
Matched == last.op = "mustArgMatch"

\* the number of parameters before a variadic tail
NumFixed(fnType) == IF IsVariadic(fnType) THEN NumIn(fnType) - 1 ELSE NumIn(fnType)

\* the kinds of parameter a nil candidate can be assigned to
NilKinds == {"Interface", "Ptr", "Slice", "Map", "Func", "Chan"}

\* the candidate can be assigned to a parameter of the type
Assignable(x, typ) ==
  IF x = NilV THEN TypeKind(typ) \in NilKinds ELSE AssignableTo(x.t, typ)

\* C23: the matcher accepts a candidate vector exactly when its length is
\* the parameter count (at least the count of fixed parameters for a
\* variadic Return), every candidate of the fixed prefix is assignable to
\* the parameter at its position and every further candidate to the element
\* type of the variadic tail; a nil is assignable to the interface,
\* pointer, slice, map, function and channel kinds only.
C23_MatcherAcceptance ==
  Matched =>
    LET fnType == Before.returnType
        args == expect.Return.vals
        fixed == NumFixed(fnType)
        arity == IF IsVariadic(fnType) THEN Len(args) >= fixed
                                       ELSE Len(args) = fixed
        prefix == \A i \in 1..Min(fixed, Len(args)) :
                    Assignable(args[i], fnType.in[i])
        tail == \A i \in (fixed + 1)..Len(args) :
                  Assignable(args[i], fnType.in[NumIn(fnType)])
    IN (last.abort = "") <=> (arity /\ prefix /\ tail)

\* C23 witness: func(int, ...chan int) accepts 1, nil, nil
C23_Witness ==
  /\ Matched
  /\ last.abort = ""
  /\ Before.returnType = [in |-> <<"int", "chan int">>, variadic |-> TRUE]
  /\ expect.Return.vals = <<IntV(1), NilV, NilV>>

\* Expectorise has just configured the returns through CallReturnEmpty
Emptied ==
  /\ Applied
  /\ expect.Expected # "false"
  /\ expect.Return.isNil
  /\ last.defaultReturns.isNil

\* one value per parameter before a variadic tail: the error where the
\* parameter type is error and an error is given, else the zero value
EmptyValues(fnType, retErr) ==
  [i \in 1..NumFixed(fnType) |->
     IF retErr # NilV /\ fnType.in[i] = "error" THEN retErr
     ELSE Zero(fnType.in[i])]

\* the Return has a single parameter of a type without a name: a lone
\* variadic tail, or a pointer, slice or empty interface
LoneUnnamed(fnType) == NumIn(fnType) = 1 /\ TypeName(In(fnType, 1)) = ""

C28_ErrNeverDropped ==
  (Applied /\ last.abort = "" /\ expect.Expected # "false" /\ expect.Err # NilV)
    => \E i \in 1..Len(After.ReturnArguments) :
         After.ReturnArguments[i] = expect.Err

\* C25: with return values V and an error e both set on the Expect, the
\* vector checked and configured is V with e appended as one more value:
\* when that vector fits the Return of the call it is what the call returns
\* (a nil stored as the zero value of its parameter), otherwise Expectorise
\* panics with the mismatch and nothing is configured.
C25_ErrAppendedToReturn ==
  (Applied /\ expect.Expected # "false" /\ ~expect.Return.isNil
           /\ expect.Err # NilV)
    => LET fnType == Before.returnType
           vec == Append(expect.Return.vals, expect.Err)
       IN IF WrongShape(fnType, vec)
            THEN /\ last.abort = "mismatch"
                 /\ ~After.returned
            ELSE /\ last.abort = ""
                 /\ After.ReturnArguments = StoredAs(fnType, vec)

\* C25 witness: Return(1) with error on func(int, error) gives 1, error
C25_Witness ==
  /\ Applied
  /\ Before.returnType = IntErrorReturn
  /\ expect.Return = MkSlice(<<IntV(1)>>)
  /\ expect.Err = ErrV(2)
  /\ After.ReturnArguments = <<IntV(1), ErrV(2)>>

\* C27: when Expectorise panics with the mismatch, Return has not been
\* called: the ReturnArguments of the call are what they were before, while
\* the call has been marked optional (for an Expect with nil Expected),
\* given the repeat count of the Expect (when positive) and its arguments
\* with every placeholder replaced, and it is still in ExpectedCalls.
C27_MismatchBeforeReturn ==
  (Applied /\ last.abort = "mismatch")
    => /\ After.ReturnArguments = Before.ReturnArguments
       /\ After.returned = Before.returned
       /\ After.optional = (Before.optional \/ expect.Expected = "nil")
       /\ After.Repeatability =
            IF expect.nTimes > 0 THEN expect.nTimes ELSE Before.Repeatability
       /\ Len(After.Arguments) = Len(Before.Arguments)
       /\ \A i \in 1..Len(Before.Arguments) :
            After.Arguments[i] =
              IF Before.Arguments[i] # Arg THEN Before.Arguments[i]
              ELSE IF i <= Len(expect.argReplacements)
                THEN expect.argReplacements[i]
              ELSE Anything
       /\ ExpectedCalls = last.preCalls
       /\ InList(ExpectedCalls, last.id) = InList(last.preCalls, last.id)

\* C27 witness: a wrapper that returns 1, nil is Expectorised again with
\* values that do not fit: it keeps 1, nil, is now optional and limited to
\* MaxTimes uses, and is still registered
C27_Witness ==
  /\ Applied
  /\ last.abort = "mismatch"
  /\ expect = PtrReturn
  /\ Before.ReturnArguments = <<IntV(1), NilV>>
  /\ ~Before.optional
  /\ After.ReturnArguments = <<IntV(1), NilV>>
  /\ After.optional
  /\ After.Repeatability = MaxTimes
  /\ InList(ExpectedCalls, last.id)

Returned ==
  /\ Applied
  /\ expect.Expected # "false"
  /\ ~expect.Return.isNil \/ (expect.Err = NilV /\ ~last.defaultReturns.isNil)

\* the vector CallReturn hands to the matcher
Candidate ==
  IF ~expect.Return.isNil
    THEN returnArgs(Before.returnType, expect.Return.vals, expect.Err,
                    ~expect.exactReturn)
    ELSE last.defaultReturns.vals

\* C30: in CallReturn a vector that the matcher accepts is converted by
\* toReflectValues without an error and reaches Return with every value at
\* its place: Return has as many values as the vector, the non-nil ones
\* unchanged and a nil as the zero value of its parameter (as nil for the
\* Return of a bare call); no error comes back from CallReturn, a vector
\* that is not accepted is a mismatch panic.
C30_AcceptedReachesReturn ==
  Returned =>
    /\ last.abort \in {"", "mismatch"}
    /\ last.abort = "" =>
         /\ After.returned
         /\ Len(After.ReturnArguments) = Len(Candidate)
         /\ \A i \in 1..Len(Candidate) :
              IF Candidate[i] # NilV
                THEN After.ReturnArguments[i] = Candidate[i]
                ELSE After.ReturnArguments[i] =
                       IF isVariadicAnyReturn(Before.returnType) THEN NilV
                       ELSE Zero(In(Before.returnType,
                                    Min(i, NumIn(Before.returnType))))

====
